---- MODULE Spec2Model ----
(***************************************************************************)
(* kingrid: grid statistics over Kinect depth frames (src/kingrid.c).      *)
(*                                                                         *)
(* The model follows main()'s polling loop and the depth() callback.  A    *)
(* pass of depth() is split into the steps of its source: the memsets, one *)
(* step per pixel of the reduction loop, the aggregation loops, the        *)
(* rendering loops and the return.  The frame is read one sample per       *)
(* reduction step (depth() reads every buf[i] exactly once and the buffer  *)
(* does not change during a pass).                                         *)
(*                                                                         *)
(* The frame is FrameW x FrameH pixels instead of 640 x 480; everything    *)
(* else keeps the numbers of the source.  The two-dimensional arrays of    *)
(* depth() are indexed by the flat cell number gridy * divisions + gridx,  *)
(* and small_histogram is the flat int memory of the C array: the int at   *)
(* address cell * SM_HIST_SIZE + bucket, zero where never written.         *)
(***************************************************************************)
EXTENDS Integers, FiniteSets, Sequences, TLC

\* ---------------------------------------------------------------- constants
SM_HIST_SIZE == 64
Sentinel == 2047
HistRange == 1024
LutSize == 2048
MinInit == 65535
OorPercent == 35
BarScale == 40
DefaultCols == 96
MinBoxWidth == 10

\* ------------------------------------------------------------------- bounds
FrameW == 2
FrameH == 1
MaxDiv == 2
MaxFrames == 2

FRAME_PIX == FrameW * FrameH

\* Raw samples a frame is drawn from: bucket 0, a middle bucket, a value past
\* the 1024 raw units the histogram spans, and the sentinel.
Samples == {5, 500, 1500, Sentinel}

\* Terminal heights (LINES): a 24-line terminal and the default of main().
RowsChoices == {24, 40}

Modes == {"STATS", "HISTOGRAM", "ASCII"}

\* What a build does with the increment of an int past the end of
\* small_histogram: the word hit is dead, or it is oor_total's, or the process
\* dies.
OobOutcomes == {"none", "oor_total", "crash"}

\* What a build does with an integer division by zero: a trap, or a quotient
\* of zero.
DivZeroOutcomes == {"trap", "zero"}

VARIABLES
    pc,               \* position of the process
    divisions,        \* data.divisions
    boxwidth,         \* data.boxwidth
    histrows,         \* data.histrows
    disp_mode,        \* data.disp_mode
    out_of_range,     \* data.out_of_range
    done,             \* data.done
    frame,            \* data.frame
    last_oor,         \* main's last_oor
    led,              \* the device's LED state
    i,                \* depth(): pixel index of the reduction loop
    small_histogram,  \* depth(): flat memory of small_histogram
    total, min, max, median, avg, oor_count, div_pix,   \* depth(): per cell
    oor_total,        \* depth(): out of range count
    sentinels,        \* number of samples equal to 2047 read from the frame
    lut_reads,        \* depth_lut indices the rendering read
    divisors,         \* divisors the rendering divided by
    out_pct,          \* STATS: the "Out" row, per cell
    slices,           \* HISTOGRAM: buckets summed by each bar row
    bars              \* HISTOGRAM: characters of each bar

config == <<divisions, boxwidth, histrows, disp_mode>>
mainv == <<out_of_range, done, frame, last_oor, led>>
locals == <<i, small_histogram, total, min, max, median, avg, oor_count,
            div_pix, oor_total>>
rendered == <<lut_reads, divisors, out_pct, slices, bars>>
vars == <<pc, config, mainv, sentinels, locals, rendered>>

\* ------------------------------------------------------------------ helpers
Cells == 0 .. divisions * divisions - 1

RECURSIVE SumOver(_, _)
SumOver(f, S) ==
    IF S = {} THEN 0
    ELSE LET x == CHOOSE y \in S : TRUE IN f[x] + SumOver(f, S \ {x})

\* C integer division truncates toward zero.
CDiv(a, b) == IF a >= 0 THEN a \div b ELSE -((-a) \div b)

\* main(): data.boxwidth and data.histrows from the terminal size.
BoxWidth(cols, g) ==
    LET w == CDiv(cols - 1, g) - 3 IN IF w < MinBoxWidth THEN MinBoxWidth ELSE w

HistRows(rows, g) == CDiv(rows - 2, g) - 1

\* PX_TO_X with the mirror taken from the width instead of the last column.
PX_TO_X_OffByOne(pix) == FrameW - (pix % FrameW)

\* PX_TO_X, PX_TO_Y, PX_TO_GRIDX, PX_TO_GRIDY.
PX_TO_X(pix) == FrameW - 1 - (pix % FrameW)
PX_TO_Y(pix) == pix \div FrameW
PX_TO_GRIDX(pix) == (PX_TO_X(pix) * divisions) \div FrameW
PX_TO_GRIDY(pix) == (PX_TO_Y(pix) * divisions) \div FrameH

\* The flat index of [gridy][gridx] in a divisions x divisions array.
CellOf(gridy, gridx) == gridy * divisions + gridx

\* The int of small_histogram's memory at address a.
Hist(a) == IF a \in DOMAIN small_histogram THEN small_histogram[a] ELSE 0

\* &small_histogram[gridy][gridx][b] as an offset in ints from the array.
HistAddr(cell, b) == cell * SM_HIST_SIZE + b

HistEnd == divisions * divisions * SM_HIST_SIZE

\* buf[i] * SM_HIST_SIZE / 1024
Bucket(v) == (v * SM_HIST_SIZE) \div HistRange

\* The words of small_histogram[cell][0 .. SM_HIST_SIZE-1].
OwnBuckets(cell) == HistAddr(cell, 0) .. HistAddr(cell, SM_HIST_SIZE - 1)

\* The sum of the cell's own buckets (the words never written hold zero).
HistSum(cell) ==
    SumOver(small_histogram, {a \in DOMAIN small_histogram : a \in OwnBuckets(cell)})

\* small_histogram[...]++ at address a.
HistInc(a) ==
    [x \in DOMAIN small_histogram \cup {a} |-> IF x = a THEN Hist(a) + 1 ELSE small_histogram[x]]

\* In-range pixels of a cell.
InRange(cell) == div_pix[cell] - oor_count[cell]

\* The test of line 182 taking any out-of-range pixel for a cell without data.
HasData_NoSentinel(cell) == oor_count[cell] = 0 /\ div_pix[cell] > 0

\* The test of line 182.
HasData(cell) == oor_count[cell] < div_pix[cell]

\* The median loop: the value of histcount when the loop is left.
RECURSIVE MedianWalk(_, _, _)
MedianWalk(cell, histcount, medcount) ==
    IF histcount >= SM_HIST_SIZE THEN histcount
    ELSE LET m == medcount + Hist(HistAddr(cell, histcount)) IN
         IF m >= InRange(cell) \div 2 THEN histcount
         ELSE MedianWalk(cell, histcount + 1, m)

\* The conversion of line 192 adding the whole divisor before dividing.
MedianOf_RoundUp(histcount) == (histcount * HistRange + SM_HIST_SIZE) \div SM_HIST_SIZE

\* Line 192: the raw value reported for the bucket the walk left at.
MedianOf(histcount) == (histcount * HistRange + (SM_HIST_SIZE \div 2)) \div SM_HIST_SIZE

\* lutf(): the two table entries read for a fractional index num/den.
LutfReads(a) == {a.num \div a.den, (a.num \div a.den) + 1}

\* The flag of line 302.
OutOfRangeFlag(n) == n > (FRAME_PIX * OorPercent) \div 100

\* grid_bar(): characters printed for a percentage.
GridBar(percent) ==
    LET p == IF percent > 100 THEN 100 ELSE IF percent < 0 THEN 0 ELSE percent
    IN (p * boxwidth) \div 100

\* HISTOGRAM: the buckets bar row histcount sums (lines 262-264).
BarSlice(histcount) == {histcount + l : l \in 0 .. (SM_HIST_SIZE \div histrows) - 1}

BarVal(cell, histcount) ==
    LET words == {HistAddr(cell, b) : b \in BarSlice(histcount)}
    IN SumOver(small_histogram, {a \in DOMAIN small_histogram : a \in words})

\* A quotient whose divisor may be zero, in a build where that does not trap.
Quot(a, b) == IF b = 0 THEN 0 ELSE CDiv(a, b)

\* depth() is not running: its locals do not exist.
NoLocals ==
    /\ i = 0
    /\ small_histogram = << >>
    /\ total = << >> /\ min = << >> /\ max = << >> /\ median = << >>
    /\ avg = << >> /\ oor_count = << >> /\ div_pix = << >>
    /\ oor_total = 0

NoRender ==
    /\ lut_reads = {} /\ divisors = {} /\ out_pct = << >>
    /\ slices = << >> /\ bars = << >>

DropLocals ==
    /\ i' = 0
    /\ small_histogram' = << >>
    /\ total' = << >> /\ min' = << >> /\ max' = << >> /\ median' = << >>
    /\ avg' = << >> /\ oor_count' = << >> /\ div_pix' = << >>
    /\ oor_total' = 0
    /\ lut_reads' = {} /\ divisors' = {} /\ out_pct' = << >>
    /\ slices' = << >> /\ bars' = << >>

\* --------------------------------------------------------------------- Init
\* main() up to line 434: the options are parsed, the LED is green.
Init ==
    /\ pc = "loop"
    /\ \E g \in 1 .. MaxDiv, rows \in RowsChoices :
          /\ divisions = g
          /\ boxwidth = BoxWidth(DefaultCols, g)
          /\ histrows = HistRows(rows, g)
    /\ disp_mode \in Modes
    /\ out_of_range = FALSE
    /\ done = FALSE
    /\ frame = 0
    /\ last_oor = FALSE
    /\ led = "GREEN"
    /\ sentinels = 0
    /\ NoLocals
    /\ NoRender

\* ------------------------------------------------------------------ actions
\* intr(): a signal arrives.  done is read by the loop test alone, so a signal
\* taken while depth() runs is one taken when depth() has returned.
Intr ==
    /\ pc \in {"loop", "events", "check"}
    /\ ~done
    /\ done' = TRUE
    /\ UNCHANGED <<pc, config, out_of_range, frame, last_oor, led, sentinels, locals, rendered>>

\* while(!data.done && ...): the loop is left when done is set.
LoopTest ==
    /\ pc = "loop"
    /\ IF done THEN pc' = "exited" /\ led' = "OFF"
               ELSE pc' = "events" /\ led' = led
    /\ UNCHANGED <<config, out_of_range, done, frame, last_oor, sentinels, locals, rendered>>

\* freenect_process_events() returns a value >= 0.
EventsReturn ==
    /\ pc = "events"
    /\ pc' = "check"
    /\ UNCHANGED <<config, mainv, sentinels, locals, rendered>>

\* freenect_process_events() returns a negative value: the loop is left.
EventsFail ==
    /\ pc = "events"
    /\ pc' = "exited"
    /\ led' = "OFF"
    /\ UNCHANGED <<config, out_of_range, done, frame, last_oor, sentinels, locals, rendered>>

\* The body of the polling loop without the update of last_oor.
LedCheck_ForgetLast ==
    /\ pc = "check"
    /\ IF last_oor # out_of_range
          THEN led' = (IF out_of_range THEN "BLINK_RED_YELLOW" ELSE "GREEN")
          ELSE led' = led
    /\ pc' = "loop"
    /\ UNCHANGED <<config, out_of_range, done, frame, last_oor, sentinels, locals, rendered>>

\* The body of the polling loop.
LedCheck ==
    /\ pc = "check"
    /\ IF last_oor # out_of_range
          THEN /\ led' = (IF out_of_range THEN "BLINK_RED_YELLOW" ELSE "GREEN")
               /\ last_oor' = out_of_range
          ELSE UNCHANGED <<led, last_oor>>
    /\ pc' = "loop"
    /\ UNCHANGED <<config, out_of_range, done, frame, sentinels, locals, rendered>>

\* depth() is called with a new frame: the memsets.  At most cap frames are
\* delivered.
DepthBegin(cap) ==
    /\ pc = "events"
    /\ frame < cap
    /\ pc' = "reduce"
    /\ i' = 0
    /\ small_histogram' = << >>
    /\ total' = [c \in Cells |-> 0]
    /\ min' = [c \in Cells |-> MinInit]
    /\ max' = [c \in Cells |-> 0]
    /\ oor_count' = [c \in Cells |-> 0]
    /\ div_pix' = [c \in Cells |-> 0]
    /\ oor_total' = 0
    /\ sentinels' = 0
    /\ UNCHANGED <<config, mainv, median, avg, rendered>>

\* One iteration of the reduction loop, reading the sample v = buf[i].
ReducePixel(v) ==
    LET cell == CellOf(PX_TO_GRIDY(i), PX_TO_GRIDX(i))
        a == HistAddr(cell, Bucket(v))
    IN
    /\ pc = "reduce"
    /\ i < FRAME_PIX
    /\ IF v = Sentinel
          THEN /\ div_pix' = [div_pix EXCEPT ![cell] = @ + 1]
               /\ oor_count' = [oor_count EXCEPT ![cell] = @ + 1]
               /\ oor_total' = oor_total + 1
               /\ sentinels' = sentinels + 1
               /\ i' = i + 1
               /\ UNCHANGED <<pc, small_histogram, total, min, max>>
          ELSE \E o \in (IF a < HistEnd THEN {"inside"} ELSE OobOutcomes) :
               IF o = "crash"
                  THEN /\ pc' = "crashed"
                       /\ UNCHANGED <<i, small_histogram, total, min, max,
                                      oor_count, div_pix, oor_total, sentinels>>
                  ELSE /\ div_pix' = [div_pix EXCEPT ![cell] = @ + 1]
                       /\ small_histogram' = (IF o = "inside" THEN HistInc(a) ELSE small_histogram)
                       /\ oor_total' = (IF o = "oor_total" THEN oor_total + 1 ELSE oor_total)
                       /\ min' = [min EXCEPT ![cell] = IF v < @ THEN v ELSE @]
                       /\ max' = [max EXCEPT ![cell] = IF v > @ THEN v ELSE @]
                       /\ total' = [total EXCEPT ![cell] = @ + v]
                       /\ i' = i + 1
                       /\ UNCHANGED <<pc, oor_count, sentinels>>
    /\ UNCHANGED <<config, mainv, median, avg, rendered>>

\* The loops of lines 180-200.
Aggregate ==
    /\ pc = "reduce"
    /\ i = FRAME_PIX
    /\ avg' = [c \in Cells |->
                 IF HasData(c) THEN [num |-> total[c], den |-> InRange(c)]
                               ELSE [num |-> Sentinel, den |-> 1]]
    /\ median' = [c \in Cells |->
                 IF HasData(c) THEN MedianOf(MedianWalk(c, 0, 0)) ELSE Sentinel]
    /\ min' = [c \in Cells |-> IF HasData(c) THEN min[c] ELSE Sentinel]
    /\ max' = [c \in Cells |-> IF HasData(c) THEN max[c] ELSE Sentinel]
    /\ pc' = "render"
    /\ UNCHANGED <<config, mainv, sentinels, i, small_histogram, total,
                   oor_count, div_pix, oor_total, rendered>>

\* Cells whose pixel count is zero, and the first of them in rendering order.
ZeroCells == {c \in Cells : div_pix[c] = 0}
FirstZero == CHOOSE z \in ZeroCells : \A y \in ZeroCells : z <= y
RowOf(cell) == cell \div divisions

\* STATS (lines 211-246).  With trap set, the division of the "Out" row traps
\* at the first cell without pixels: the grid rows up to that cell's have
\* printed their Avg, Min, Med and Max rows, the cells before it their Out entry.
RenderStats(trap) ==
    LET shown == IF trap THEN {c \in Cells : RowOf(c) <= RowOf(FirstZero)} ELSE Cells
        divided == IF trap THEN {c \in Cells : c <= FirstZero} ELSE Cells
        printed == IF trap THEN {c \in Cells : c < FirstZero} ELSE Cells
    IN
    /\ lut_reads' = UNION {LutfReads(avg[c]) \cup {min[c], median[c], max[c]} : c \in shown}
    /\ divisors' = {div_pix[c] : c \in divided}
    /\ out_pct' = [c \in printed |-> Quot(oor_count[c] * 100, div_pix[c])]
    /\ slices' = << >>
    /\ bars' = << >>

\* HISTOGRAM (lines 248-269).  With trap set, the division of the first bar
\* row traps at the first cell without pixels.
RenderHistogram(trap) ==
    LET barrows == 0 .. histrows - 1
        full == IF trap THEN {c \in Cells : RowOf(c) < RowOf(FirstZero)} ELSE Cells
        part == IF trap THEN {c \in Cells : RowOf(c) = RowOf(FirstZero) /\ c < FirstZero} ELSE {}
        divided == IF histrows < 1 THEN {}
                   ELSE IF trap THEN {c \in Cells : c <= FirstZero} ELSE Cells
        drawn == {<<r, c>> : r \in barrows, c \in full} \cup {<<0, c>> : c \in part}
    IN
    /\ lut_reads' = {}
    /\ divisors' = {div_pix[c] : c \in divided}
    /\ out_pct' = << >>
    /\ slices' = [r \in (IF trap /\ full = {} THEN {0} ELSE barrows) |-> BarSlice(r)]
    /\ bars' = [rc \in drawn |->
                  GridBar(Quot(BarVal(rc[2], rc[1]) * BarScale * histrows, div_pix[rc[2]]))]

\* ASCII (lines 271-291): one character per cell from depth_lut[min].
RenderAscii ==
    /\ lut_reads' = {min[c] : c \in Cells}
    /\ divisors' = {}
    /\ out_pct' = << >>
    /\ slices' = << >>
    /\ bars' = << >>

\* Whether the rendering of this mode divides by a zero pixel count.
DividesByZero ==
    /\ ZeroCells # {}
    /\ \/ disp_mode = "STATS"
       \/ disp_mode = "HISTOGRAM" /\ histrows >= 1

\* The display loops of lines 202-298.
Render ==
    /\ pc = "render"
    /\ \E dz \in (IF DividesByZero THEN DivZeroOutcomes ELSE {"zero"}) :
          LET trap == DividesByZero /\ dz = "trap" IN
          /\ CASE disp_mode = "STATS" -> RenderStats(trap)
               [] disp_mode = "HISTOGRAM" -> RenderHistogram(trap)
               [] OTHER -> RenderAscii
          /\ pc' = (IF trap THEN "crashed" ELSE "rendered")
    /\ UNCHANGED <<config, mainv, sentinels, locals>>

\* Lines 300-305: the flag, the frame count, and depth() returns.
DepthReturn ==
    /\ pc = "rendered"
    /\ out_of_range' = OutOfRangeFlag(oor_total)
    /\ frame' = frame + 1
    /\ pc' = "events"
    /\ DropLocals
    /\ UNCHANGED <<config, done, last_oor, led, sentinels>>

\* The program with one frame delivered, in every configuration.
Next ==
    \/ Intr
    \/ LoopTest
    \/ EventsReturn
    \/ EventsFail
    \/ LedCheck
    \/ DepthBegin(1)
    \/ \E v \in Samples : ReducePixel(v)
    \/ Aggregate
    \/ Render
    \/ DepthReturn

Spec == Init /\ [][Next]_vars

\* The program with up to MaxFrames frames delivered, with one division and
\* the default display mode.
InitLoop == Init /\ divisions = 1 /\ histrows = HistRows(40, 1) /\ disp_mode = "STATS"

NextLoop ==
    \/ Intr
    \/ LoopTest
    \/ EventsReturn
    \/ EventsFail
    \/ LedCheck
    \/ DepthBegin(MaxFrames)
    \/ \E v \in Samples : ReducePixel(v)
    \/ Aggregate
    \/ Render
    \/ DepthReturn

SpecLoop == InitLoop /\ [][NextLoop]_vars

\* ------------------------------------------------------------------- claims
\* The reduction loop has run to its end.
ReductionDone == (pc = "reduce" /\ i = FRAME_PIX) \/ pc \in {"render", "rendered"}

\* The aggregation loops have run.
Aggregated == pc \in {"render", "rendered"}

\* C1: every pixel maps to a cell (gridy, gridx) with both coordinates in
\* 0 .. divisions-1, the reduction loop counts each pixel it has passed in one
\* cell, and after the loop the pixel counts of all cells sum to width*height.
C1_PixelsPartitioned ==
    /\ \A pix \in 0 .. FRAME_PIX - 1 :
          /\ PX_TO_GRIDX(pix) \in 0 .. divisions - 1
          /\ PX_TO_GRIDY(pix) \in 0 .. divisions - 1
    /\ pc = "reduce" => SumOver(div_pix, DOMAIN div_pix) = i
    /\ ReductionDone => DOMAIN div_pix = Cells /\ SumOver(div_pix, Cells) = FRAME_PIX

C1_Witness ==
    /\ pc = "reduce" /\ i = FRAME_PIX
    /\ divisions > 1
    /\ \E c \in Cells : div_pix[c] > 0 /\ oor_count[c] < div_pix[c]

\* C2: after the reduction loop the counts in each cell's own SM_HIST_SIZE
\* buckets sum to the cell's pixel count less its out-of-range count.
C2_HistogramCountsInRange ==
    ReductionDone => \A c \in Cells : HistSum(c) = div_pix[c] - oor_count[c]

\* C3: every cell with an in-range pixel has min <= median <= max.
C3_MedianBetweenMinMax ==
    Aggregated =>
        \A c \in Cells : oor_count[c] < div_pix[c] =>
            min[c] <= median[c] /\ median[c] <= max[c]

\* C4: in STATS mode the rendering reads depth_lut at indices 0 .. 2047 only.
C4_LutReadsInTable ==
    disp_mode = "STATS" => lut_reads \subseteq 0 .. LutSize - 1

\* C5: no division of the rendering has a zero pixel count as its divisor.
C5_NoZeroDivisor == 0 \notin divisors

\* C6: once a pass has completed, out_of_range is true exactly when more than
\* 35% of the frame's pixels are 2047; a frame of 2047 alone shows 100 in the
\* Out entry of every cell that has pixels.
C6_FlagIffOver35Percent ==
    /\ (frame >= 1 /\ pc \in {"events", "check", "loop", "exited"}) =>
          (out_of_range <=> sentinels * 100 > OorPercent * FRAME_PIX)
    /\ (pc = "rendered" /\ sentinels = FRAME_PIX) =>
          \A c \in DOMAIN out_pct : div_pix[c] > 0 => out_pct[c] = 100

\* C7: after the aggregation a cell with pixels that are all 2047 has
\* min = max = average = median = 2047, and a cell with an in-range pixel keeps
\* a min and a max below 2047.
C7_SentinelCells ==
    Aggregated =>
        \A c \in Cells :
            /\ (div_pix[c] >= 1 /\ oor_count[c] = div_pix[c]) =>
                  /\ min[c] = Sentinel /\ max[c] = Sentinel /\ median[c] = Sentinel
                  /\ avg[c].num = Sentinel * avg[c].den
            /\ oor_count[c] < div_pix[c] =>
                  /\ min[c] <= max[c] /\ max[c] < Sentinel
                  /\ avg[c].num = total[c] /\ avg[c].den = div_pix[c] - oor_count[c]

C7_Witness ==
    /\ pc = "render"
    /\ \E c \in Cells : div_pix[c] >= 1 /\ oor_count[c] = div_pix[c] /\ median[c] = Sentinel
    /\ \E c \in Cells : oor_count[c] < div_pix[c] /\ max[c] > HistRange

\* The count of the cell's buckets 0 .. b.
CumCount(c, b) ==
    SumOver(small_histogram,
            {a \in DOMAIN small_histogram : a \in HistAddr(c, 0) .. HistAddr(c, b)})

\* The running count has reached half the in-range pixels at bucket b.
ReachesHalf(c, b) == CumCount(c, b) >= (div_pix[c] - oor_count[c]) \div 2

\* The walk stops inside the histogram, and the first bucket where it does.
WalkStops(c) == \E b \in 0 .. SM_HIST_SIZE - 1 : ReachesHalf(c, b)
StopBucket(c) ==
    CHOOSE b \in 0 .. SM_HIST_SIZE - 1 :
        ReachesHalf(c, b) /\ \A k \in 0 .. b - 1 : ~ReachesHalf(c, k)

\* The raw range of bucket b is BucketLow(b) .. BucketLow(b+1) - 1.
BucketLow(b) == (b * HistRange) \div SM_HIST_SIZE
BucketMid(b) == (BucketLow(b) + BucketLow(b + 1)) \div 2

\* C8 as stated: the median reported for a walk that stops at bucket b is the
\* midpoint of the bucket's raw range.
C8_MedianIsBucketMidpoint ==
    Aggregated =>
        \A c \in Cells : (oor_count[c] < div_pix[c] /\ WalkStops(c)) =>
            median[c] = BucketMid(StopBucket(c))

\* C8 amended: the median reported for a walk that stops at bucket b is the
\* lower end b*1024/SM_HIST_SIZE of the bucket's raw range; a cell whose
\* in-range pixels all fall in bucket 0 reports 0.
C8_MedianIsBucketLow ==
    Aggregated =>
        \A c \in Cells : oor_count[c] < div_pix[c] =>
            /\ WalkStops(c) => median[c] = BucketLow(StopBucket(c))
            /\ max[c] < BucketLow(1) => median[c] = 0

C8_Witness ==
    /\ pc = "render"
    /\ \E c \in Cells :
          /\ div_pix[c] - oor_count[c] >= 2
          /\ WalkStops(c) /\ StopBucket(c) > 0
          /\ median[c] = BucketLow(StopBucket(c))

\* C9: with 1 <= histrows <= SM_HIST_SIZE the bar rows sum slices of
\* SM_HIST_SIZE/histrows buckets that lie inside 0 .. SM_HIST_SIZE-1 and do not
\* overlap: bar row r sums the buckets r*w .. (r+1)*w - 1, w = SM_HIST_SIZE/histrows.
C9_BarSlicesDisjoint ==
    (disp_mode = "HISTOGRAM" /\ histrows \in 1 .. SM_HIST_SIZE) =>
        LET w == SM_HIST_SIZE \div histrows IN
        /\ \A r \in DOMAIN slices :
              /\ slices[r] = r * w .. (r + 1) * w - 1
              /\ slices[r] \subseteq 0 .. SM_HIST_SIZE - 1
        /\ \A r, q \in DOMAIN slices : r # q => slices[r] \cap slices[q] = {}

\* The LED that shows a flag value.
LedFor(flag) == IF flag THEN "BLINK_RED_YELLOW" ELSE "GREEN"

\* C10: whenever an iteration of the polling loop has completed the LED shows
\* the current flag, and the LED changes only in the loop body of an iteration
\* whose flag differs from last_oor, or when the loop is left.
C10_LedFollowsFlag ==
    /\ [](pc = "loop" => led = LedFor(out_of_range) /\ last_oor = out_of_range)
    /\ [][led' # led => \/ pc = "check" /\ last_oor # out_of_range
                        \/ pc' = "exited"]_vars

C10_Witness ==
    /\ pc = "loop"
    /\ frame >= 1
    /\ out_of_range /\ last_oor
    /\ led = "BLINK_RED_YELLOW"

====
